---- MODULE Spec2Model ----
(***************************************************************************)
(* Model of src/App.py: the Streamlit dashboard that holds the declared    *)
(* schema catalogs (TABLE_SCHEMAS, INDEX_SCHEMAS, RLS_POLICIES), the       *)
(* sidebar's schema-management buttons and the SQL text they emit, and the *)
(* Supabase backend the emitted SQL is meant to be run against.            *)
(*                                                                         *)
(* One action is one Streamlit script run (the script is executed top to   *)
(* bottom once per widget interaction), or one run of emitted SQL in the   *)
(* Supabase SQL editor.                                                    *)
(***************************************************************************)
EXTENDS Integers, Sequences, FiniteSets, TLC

(***************************************************************************)
(* Bounds of the model.                                                    *)
(***************************************************************************)
\* Most objects (tables and indexes) that exist in the backend initially.
MaxInitObjects == 2

(***************************************************************************)
(* SQL statements.  A SQL text (a value of one of the catalogs) is the     *)
(* sequence of statements it holds; comments of the text are dropped.      *)
(* kind: what the statement creates; target: the object's name; on: the    *)
(* table the object belongs to; guarded: the statement is written with     *)
(* IF NOT EXISTS (ALTER TABLE ... ENABLE ROW LEVEL SECURITY has no such     *)
(* clause and needs none).                                                 *)
(***************************************************************************)
CreateExtension(name) ==
    [kind |-> "create_extension", target |-> name, on |-> "", guarded |-> TRUE]

CreateTable_NoIfNotExists(name) ==
    [kind |-> "create_table", target |-> name, on |-> name, guarded |-> FALSE]

CreateTable(name) ==
    [kind |-> "create_table", target |-> name, on |-> name, guarded |-> TRUE]

CreateIndex_NoIfNotExists(name, table) ==
    [kind |-> "create_index", target |-> name, on |-> table, guarded |-> FALSE]

CreateIndex_OnProperty(name, table) ==
    [kind |-> "create_index", target |-> name, on |-> "property", guarded |-> TRUE]

CreateIndex(name, table) ==
    [kind |-> "create_index", target |-> name, on |-> table, guarded |-> TRUE]

EnableRls(table) ==
    [kind |-> "enable_rls", target |-> table, on |-> table, guarded |-> FALSE]

CreatePolicy(name, table) ==
    [kind |-> "create_policy", target |-> name, on |-> table, guarded |-> TRUE]

(***************************************************************************)
(* The catalogs, in declaration order (a Python dict keeps insertion       *)
(* order; .items() and .keys() iterate in it).                             *)
(***************************************************************************)
TABLE_SCHEMAS ==
    << [key |-> "extensions", sql |-> << CreateExtension("uuid-ossp") >>],
       [key |-> "users", sql |-> << CreateTable("users") >>],
       [key |-> "api_usage", sql |-> << CreateTable("api_usage") >>],
       [key |-> "properties", sql |-> << CreateTable("properties") >>],
       [key |-> "user_sessions", sql |-> << CreateTable("user_sessions") >>],
       [key |-> "market_alerts", sql |-> << CreateTable("market_alerts") >>],
       [key |-> "property_comparisons", sql |-> << CreateTable("property_comparisons") >>],
       [key |-> "user_preferences", sql |-> << CreateTable("user_preferences") >>],
       [key |-> "portfolio_analytics", sql |-> << CreateTable("portfolio_analytics") >>],
       [key |-> "saved_searches", sql |-> << CreateTable("saved_searches") >>] >>

INDEX_SCHEMAS ==
    << [key |-> "idx_properties_user_id", sql |-> << CreateIndex("idx_properties_user_id", "properties") >>],
       [key |-> "idx_properties_created_at", sql |-> << CreateIndex("idx_properties_created_at", "properties") >>],
       [key |-> "idx_api_usage_user_id", sql |-> << CreateIndex("idx_api_usage_user_id", "api_usage") >>],
       [key |-> "idx_api_usage_created_at", sql |-> << CreateIndex("idx_api_usage_created_at", "api_usage") >>],
       [key |-> "idx_api_usage_query_type", sql |-> << CreateIndex("idx_api_usage_query_type", "api_usage") >>],
       [key |-> "idx_market_alerts_user_id", sql |-> << CreateIndex("idx_market_alerts_user_id", "market_alerts") >>],
       [key |-> "idx_market_alerts_active", sql |-> << CreateIndex("idx_market_alerts_active", "market_alerts") >>],
       [key |-> "idx_user_sessions_last_login", sql |-> << CreateIndex("idx_user_sessions_last_login", "user_sessions") >>],
       [key |-> "idx_portfolio_analytics_date", sql |-> << CreateIndex("idx_portfolio_analytics_date", "portfolio_analytics") >>],
       [key |-> "idx_saved_searches_user_id", sql |-> << CreateIndex("idx_saved_searches_user_id", "saved_searches") >>],
       [key |-> "idx_properties_data_gin", sql |-> << CreateIndex("idx_properties_data_gin", "properties") >>],
       [key |-> "idx_properties_search_params_gin", sql |-> << CreateIndex("idx_properties_search_params_gin", "properties") >>],
       [key |-> "idx_market_alerts_criteria_gin", sql |-> << CreateIndex("idx_market_alerts_criteria_gin", "market_alerts") >>],
       [key |-> "idx_user_preferences_notifications_gin", sql |-> << CreateIndex("idx_user_preferences_notifications_gin", "user_preferences") >>],
       [key |-> "idx_saved_searches_criteria_gin", sql |-> << CreateIndex("idx_saved_searches_criteria_gin", "saved_searches") >>],
       [key |-> "idx_properties_tags_gin", sql |-> << CreateIndex("idx_properties_tags_gin", "properties") >>],
       [key |-> "idx_property_comparisons_ids_gin", sql |-> << CreateIndex("idx_property_comparisons_ids_gin", "property_comparisons") >>],
       [key |-> "idx_properties_price", sql |-> << CreateIndex("idx_properties_price", "properties") >>],
       [key |-> "idx_properties_bedrooms", sql |-> << CreateIndex("idx_properties_bedrooms", "properties") >>],
       [key |-> "idx_properties_property_type", sql |-> << CreateIndex("idx_properties_property_type", "properties") >>] >>
RLS_POLICIES_PolicyFirst ==
    << [key |-> "users",
        sql |-> << CreatePolicy("Users can view own profile", "users"),
                   EnableRls("users"),
                   CreatePolicy("Users can update own profile", "users") >>],
       [key |-> "properties",
        sql |-> << EnableRls("properties"),
                   CreatePolicy("Users can view own properties", "properties"),
                   CreatePolicy("Users can insert own properties", "properties"),
                   CreatePolicy("Users can update own properties", "properties"),
                   CreatePolicy("Users can delete own properties", "properties") >>],
       [key |-> "api_usage",
        sql |-> << EnableRls("api_usage"),
                   CreatePolicy("Users can view own api usage", "api_usage") >>] >>

RLS_POLICIES ==
    << [key |-> "users",
        sql |-> << EnableRls("users"),
                   CreatePolicy("Users can view own profile", "users"),
                   CreatePolicy("Users can update own profile", "users") >>],
       [key |-> "properties",
        sql |-> << EnableRls("properties"),
                   CreatePolicy("Users can view own properties", "properties"),
                   CreatePolicy("Users can insert own properties", "properties"),
                   CreatePolicy("Users can update own properties", "properties"),
                   CreatePolicy("Users can delete own properties", "properties") >>],
       [key |-> "api_usage",
        sql |-> << EnableRls("api_usage"),
                   CreatePolicy("Users can view own api usage", "api_usage") >>] >>

(***************************************************************************)
(* The characters of each INDEX_SCHEMAS key: Python's `x in k` on strings  *)
(* is a substring test over them.                                          *)
(***************************************************************************)
Spelling ==
    ( "idx_properties_user_id" :> << "i", "d", "x", "_", "p", "r", "o", "p", "e", "r", "t", "i", "e", "s", "_", "u", "s", "e", "r", "_", "i", "d" >> @@
      "idx_properties_created_at" :> << "i", "d", "x", "_", "p", "r", "o", "p", "e", "r", "t", "i", "e", "s", "_", "c", "r", "e", "a", "t", "e", "d", "_", "a", "t" >> @@
      "idx_api_usage_user_id" :> << "i", "d", "x", "_", "a", "p", "i", "_", "u", "s", "a", "g", "e", "_", "u", "s", "e", "r", "_", "i", "d" >> @@
      "idx_api_usage_created_at" :> << "i", "d", "x", "_", "a", "p", "i", "_", "u", "s", "a", "g", "e", "_", "c", "r", "e", "a", "t", "e", "d", "_", "a", "t" >> @@
      "idx_api_usage_query_type" :> << "i", "d", "x", "_", "a", "p", "i", "_", "u", "s", "a", "g", "e", "_", "q", "u", "e", "r", "y", "_", "t", "y", "p", "e" >> @@
      "idx_market_alerts_user_id" :> << "i", "d", "x", "_", "m", "a", "r", "k", "e", "t", "_", "a", "l", "e", "r", "t", "s", "_", "u", "s", "e", "r", "_", "i", "d" >> @@
      "idx_market_alerts_active" :> << "i", "d", "x", "_", "m", "a", "r", "k", "e", "t", "_", "a", "l", "e", "r", "t", "s", "_", "a", "c", "t", "i", "v", "e" >> @@
      "idx_user_sessions_last_login" :> << "i", "d", "x", "_", "u", "s", "e", "r", "_", "s", "e", "s", "s", "i", "o", "n", "s", "_", "l", "a", "s", "t", "_", "l", "o", "g", "i", "n" >> @@
      "idx_portfolio_analytics_date" :> << "i", "d", "x", "_", "p", "o", "r", "t", "f", "o", "l", "i", "o", "_", "a", "n", "a", "l", "y", "t", "i", "c", "s", "_", "d", "a", "t", "e" >> @@
      "idx_saved_searches_user_id" :> << "i", "d", "x", "_", "s", "a", "v", "e", "d", "_", "s", "e", "a", "r", "c", "h", "e", "s", "_", "u", "s", "e", "r", "_", "i", "d" >> @@
      "idx_properties_data_gin" :> << "i", "d", "x", "_", "p", "r", "o", "p", "e", "r", "t", "i", "e", "s", "_", "d", "a", "t", "a", "_", "g", "i", "n" >> @@
      "idx_properties_search_params_gin" :> << "i", "d", "x", "_", "p", "r", "o", "p", "e", "r", "t", "i", "e", "s", "_", "s", "e", "a", "r", "c", "h", "_", "p", "a", "r", "a", "m", "s", "_", "g", "i", "n" >> @@
      "idx_market_alerts_criteria_gin" :> << "i", "d", "x", "_", "m", "a", "r", "k", "e", "t", "_", "a", "l", "e", "r", "t", "s", "_", "c", "r", "i", "t", "e", "r", "i", "a", "_", "g", "i", "n" >> @@
      "idx_user_preferences_notifications_gin" :> << "i", "d", "x", "_", "u", "s", "e", "r", "_", "p", "r", "e", "f", "e", "r", "e", "n", "c", "e", "s", "_", "n", "o", "t", "i", "f", "i", "c", "a", "t", "i", "o", "n", "s", "_", "g", "i", "n" >> @@
      "idx_saved_searches_criteria_gin" :> << "i", "d", "x", "_", "s", "a", "v", "e", "d", "_", "s", "e", "a", "r", "c", "h", "e", "s", "_", "c", "r", "i", "t", "e", "r", "i", "a", "_", "g", "i", "n" >> @@
      "idx_properties_tags_gin" :> << "i", "d", "x", "_", "p", "r", "o", "p", "e", "r", "t", "i", "e", "s", "_", "t", "a", "g", "s", "_", "g", "i", "n" >> @@
      "idx_property_comparisons_ids_gin" :> << "i", "d", "x", "_", "p", "r", "o", "p", "e", "r", "t", "y", "_", "c", "o", "m", "p", "a", "r", "i", "s", "o", "n", "s", "_", "i", "d", "s", "_", "g", "i", "n" >> @@
      "idx_properties_price" :> << "i", "d", "x", "_", "p", "r", "o", "p", "e", "r", "t", "i", "e", "s", "_", "p", "r", "i", "c", "e" >> @@
      "idx_properties_bedrooms" :> << "i", "d", "x", "_", "p", "r", "o", "p", "e", "r", "t", "i", "e", "s", "_", "b", "e", "d", "r", "o", "o", "m", "s" >> @@
      "idx_properties_property_type" :> << "i", "d", "x", "_", "p", "r", "o", "p", "e", "r", "t", "i", "e", "s", "_", "p", "r", "o", "p", "e", "r", "t", "y", "_", "t", "y", "p", "e" >> )

(***************************************************************************)
(* What the statements of the catalogs declare.                            *)
(***************************************************************************)
\* The columns of each CREATE TABLE statement, with their types as written.
Columns ==
    [users |->
        [id |-> "bigserial", email |-> "varchar", full_name |-> "varchar",
         role |-> "varchar", created_at |-> "timestamptz",
         updated_at |-> "timestamptz"],
     api_usage |->
        [id |-> "bigserial", user_id |-> "bigint", query |-> "text",
         query_type |-> "varchar", created_at |-> "timestamptz",
         metadata |-> "jsonb", response_time_ms |-> "integer",
         success |-> "boolean", error_message |-> "text"],
     properties |->
        [id |-> "bigserial", user_id |-> "bigint", property_hash |-> "varchar",
         data |-> "jsonb", search_params |-> "jsonb",
         created_at |-> "timestamptz", updated_at |-> "timestamptz",
         is_favorite |-> "boolean", notes |-> "text", tags |-> "text[]"],
     user_sessions |->
        [id |-> "bigserial", user_id |-> "bigint", user_data |-> "jsonb",
         last_login |-> "timestamptz", session_count |-> "integer",
         preferences |-> "jsonb", created_at |-> "timestamptz",
         updated_at |-> "timestamptz"],
     market_alerts |->
        [id |-> "bigserial", user_id |-> "bigint", alert_name |-> "varchar",
         alert_type |-> "varchar", location |-> "varchar", criteria |-> "jsonb",
         threshold |-> "decimal", notification_method |-> "varchar",
         is_active |-> "boolean", last_triggered |-> "timestamptz",
         created_at |-> "timestamptz", updated_at |-> "timestamptz"],
     property_comparisons |->
        [id |-> "bigserial", user_id |-> "bigint", comparison_name |-> "varchar",
         property_ids |-> "bigint[]", comparison_data |-> "jsonb",
         created_at |-> "timestamptz", updated_at |-> "timestamptz"],
     user_preferences |->
        [id |-> "bigserial", user_id |-> "bigint", notifications |-> "jsonb",
         display_settings |-> "jsonb", api_settings |-> "jsonb",
         created_at |-> "timestamptz", updated_at |-> "timestamptz"],
     portfolio_analytics |->
        [id |-> "bigserial", user_id |-> "bigint", calculation_date |-> "date",
         total_properties |-> "integer", total_value |-> "decimal",
         total_monthly_rent |-> "decimal", average_cap_rate |-> "decimal",
         total_cash_flow |-> "decimal", metrics |-> "jsonb",
         created_at |-> "timestamptz"],
     saved_searches |->
        [id |-> "bigserial", user_id |-> "bigint", search_name |-> "varchar",
         search_criteria |-> "jsonb", auto_notify |-> "boolean",
         last_run |-> "timestamptz", results_count |-> "integer",
         created_at |-> "timestamptz", updated_at |-> "timestamptz"]]

IsArrayType(type) == type \in {"text[]", "bigint[]"}

\* The WHERE clause of an index statement: the columns it names and the
\* JSON keys (<<column, key>>) it names.
NoFilter == [columns |-> {}, paths |-> {}]

\* WHERE is_active = true
ColumnFilter(c) == [columns |-> {c}, paths |-> {}]

\* WHERE data ? 'key'
KeyExists(c, key) == [columns |-> {c}, paths |-> {<<c, key>>}]

\* What an index statement indexes, by the group the source puts it in:
\* the access method, the columns named, the decoded paths (c->>'key') of
\* the indexed expression, and the WHERE clause.
\* "Basic B-tree indexes": ON table(c)
Basic(c, filter) ==
    [group |-> "basic", using |-> "btree", columns |-> {c}, paths |-> {},
     where |-> filter]

JsonbGin_OverPath(c) ==
    [group |-> "jsonb_gin", using |-> "gin", columns |-> {c},
     paths |-> {<<c, "price">>}, where |-> NoFilter]

\* "GIN indexes for JSONB columns": ON table USING GIN (c)
JsonbGin(c) ==
    [group |-> "jsonb_gin", using |-> "gin", columns |-> {c}, paths |-> {},
     where |-> NoFilter]

ArrayGin_OnNotes(c) ==
    [group |-> "array_gin", using |-> "gin", columns |-> {"notes"}, paths |-> {},
     where |-> NoFilter]

\* "GIN indexes for array columns": ON table USING GIN (c)
ArrayGin(c) ==
    [group |-> "array_gin", using |-> "gin", columns |-> {c}, paths |-> {},
     where |-> NoFilter]

Expression_FilterOnPrice(c, key) ==
    [group |-> "expression", using |-> "btree", columns |-> {c},
     paths |-> {<<c, key>>}, where |-> KeyExists(c, "price")]

\* "Expression indexes": ON table USING BTREE ((c->>'key')...) WHERE c ? 'key'
Expression(c, key) ==
    [group |-> "expression", using |-> "btree", columns |-> {c},
     paths |-> {<<c, key>>}, where |-> KeyExists(c, key)]

IndexDefinitions ==
    ( "idx_properties_user_id" :> Basic("user_id", NoFilter) @@
      "idx_properties_created_at" :> Basic("created_at", NoFilter) @@
      "idx_api_usage_user_id" :> Basic("user_id", NoFilter) @@
      "idx_api_usage_created_at" :> Basic("created_at", NoFilter) @@
      "idx_api_usage_query_type" :> Basic("query_type", NoFilter) @@
      "idx_market_alerts_user_id" :> Basic("user_id", NoFilter) @@
      "idx_market_alerts_active" :> Basic("is_active", ColumnFilter("is_active")) @@
      "idx_user_sessions_last_login" :> Basic("last_login", NoFilter) @@
      "idx_portfolio_analytics_date" :> Basic("calculation_date", NoFilter) @@
      "idx_saved_searches_user_id" :> Basic("user_id", NoFilter) @@
      "idx_properties_data_gin" :> JsonbGin("data") @@
      "idx_properties_search_params_gin" :> JsonbGin("search_params") @@
      "idx_market_alerts_criteria_gin" :> JsonbGin("criteria") @@
      "idx_user_preferences_notifications_gin" :> JsonbGin("notifications") @@
      "idx_saved_searches_criteria_gin" :> JsonbGin("search_criteria") @@
      "idx_properties_tags_gin" :> ArrayGin("tags") @@
      "idx_property_comparisons_ids_gin" :> ArrayGin("property_ids") @@
      "idx_properties_price" :> Expression("data", "price") @@
      "idx_properties_bedrooms" :> Expression("data", "bedrooms") @@
      "idx_properties_property_type" :> Expression("data", "property_type") )

PolicyOperations_AllOnUsers ==
    ( "Users can view own profile" :> "select" @@
      "Users can update own profile" :> "all" @@
      "Users can view own properties" :> "select" @@
      "Users can insert own properties" :> "insert" @@
      "Users can update own properties" :> "update" @@
      "Users can delete own properties" :> "delete" @@
      "Users can view own api usage" :> "select" )

\* The operation of each CREATE POLICY statement (FOR ...).
PolicyOperations ==
    ( "Users can view own profile" :> "select" @@
      "Users can update own profile" :> "update" @@
      "Users can view own properties" :> "select" @@
      "Users can insert own properties" :> "insert" @@
      "Users can update own properties" :> "update" @@
      "Users can delete own properties" :> "delete" @@
      "Users can view own api usage" :> "select" )

TableReferences_ApiUsageToProperties ==
    [t \in DOMAIN Columns |-> IF t = "api_usage" THEN {"properties"} ELSE {}]

\* The tables each CREATE TABLE statement declares a relationship to
\* (REFERENCES, FOREIGN KEY): no statement declares one; user_id is a
\* plain BIGINT column everywhere.
TableReferences == [t \in DOMAIN Columns |-> {}]

(***************************************************************************)
(* Helpers over catalogs and SQL texts.                                    *)
(***************************************************************************)
\* The keys of a catalog, in order.
Keys(catalog) == [i \in 1..Len(catalog) |-> catalog[i].key]

\* catalog[key]
Lookup(catalog, key) == (CHOOSE i \in 1..Len(catalog) : catalog[i].key = key)

SqlOf(catalog, key) == catalog[Lookup(catalog, key)].sql

\* Python's `x in k` on strings.
IsSubstring(x, k) ==
    \E i \in 0..(Len(k) - Len(x)) : SubSeq(k, i + 1, i + Len(x)) = x

\* The statements of a sequence of SQL texts, in order.
RECURSIVE Flatten(_)
Flatten(texts) ==
    IF texts = << >> THEN << >> ELSE Head(texts) \o Flatten(Tail(texts))

TableNames == SelectSeq(Keys(TABLE_SCHEMAS), LAMBDA k : k # "extensions")

Tables == {TableNames[i] : i \in 1..Len(TableNames)}

IndexNames == Keys(INDEX_SCHEMAS)

Indexes == {IndexNames[i] : i \in 1..Len(IndexNames)}

\* The table an index statement names after ON.
TableOfIndex(name) == SqlOf(INDEX_SCHEMAS, name)[1].on

Policies ==
    {<<s.on, s.target>> : s \in {st \in UNION {{RLS_POLICIES[i].sql[j] : j \in 1..Len(RLS_POLICIES[i].sql)} : i \in 1..Len(RLS_POLICIES)} : st.kind = "create_policy"}}

(***************************************************************************)
(* The backend: the objects and rows of the Supabase database.             *)
(***************************************************************************)
EmptyBackend ==
    [tables |-> {}, indexes |-> {}, rls |-> {}, policies |-> {},
     rows |-> [t \in Tables |-> 0]]

\* One statement run by the database.  A statement on a table that does
\* not exist is an error; creating an object that exists is an error unless
\* the statement is written with IF NOT EXISTS, and then it does nothing.
Exists(s, db) ==
    CASE s.kind = "create_table" -> s.target \in db.tables
      [] s.kind = "create_index" -> s.target \in db.indexes
      [] s.kind = "create_policy" -> <<s.on, s.target>> \in db.policies
      [] OTHER -> FALSE

Created(s, db) ==
    CASE s.kind = "create_table" -> [db EXCEPT !.tables = @ \cup {s.target}]
      [] s.kind = "create_index" -> [db EXCEPT !.indexes = @ \cup {s.target}]
      [] s.kind = "enable_rls" -> [db EXCEPT !.rls = @ \cup {s.on}]
      [] s.kind = "create_policy" ->
            [db EXCEPT !.policies = @ \cup {<<s.on, s.target>>}]
      [] OTHER -> db

ApplyStatement(s, db) ==
    IF s.kind # "create_extension" /\ s.kind # "create_table" /\ s.on \notin db.tables
    THEN [ok |-> FALSE, db |-> db]
    ELSE IF Exists(s, db)
    THEN [ok |-> s.guarded, db |-> db]
    ELSE [ok |-> TRUE, db |-> Created(s, db)]

(***************************************************************************)
(* Introspection.                                                          *)
(***************************************************************************)
\* supabase.table(t).select(...).execute(): it raises when the table does
\* not exist and when the request itself fails (the tables in `failing`).
TableQuery(t, db, failing) ==
    IF t \in failing THEN "failed"
    ELSE IF t \notin db.tables THEN "notfound"
    ELSE "ok"

check_table_exists(t, db, failing) == TableQuery(t, db, failing) = "ok"

get_table_info(t, db, failing) ==
    IF TableQuery(t, db, failing) = "ok"
    THEN [exists |-> TRUE, count |-> db.rows[t]]
    ELSE [exists |-> FALSE, count |-> 0]

(***************************************************************************)
(* execute_sql_statement: a placeholder, the SQL is not sent anywhere.     *)
(***************************************************************************)
\* The database runs a SQL text: its statements in order, up to the first
\* that fails.
RECURSIVE RunText(_, _)
RunText(sql, db) ==
    IF sql = << >> THEN [ok |-> TRUE, db |-> db]
    ELSE LET r == ApplyStatement(Head(sql), db)
         IN  IF r.ok THEN RunText(Tail(sql), r.db) ELSE r

execute_sql_statement_Sends(sql, db) ==
    LET r == RunText(sql, db) IN [success |-> r.ok, db |-> r.db]

execute_sql_statement_DryRun(sql, db) ==
    [success |-> RunText(sql, db).ok, db |-> db]

execute_sql_statement(sql, db) == [success |-> TRUE, db |-> db]

\* The backend after execute_sql_statement was called on each text in turn.
\* (Each call is made on the backend the calls before it left; the
\* singleton set has TLC compute that backend before it goes on.)
RECURSIVE ExecuteEach(_, _)
ExecuteEach(texts, db) ==
    IF texts = << >> THEN db
    ELSE CHOOSE after \in {ExecuteEach(Tail(texts), d) :
                              d \in {execute_sql_statement(Head(texts), db).db}} : TRUE

(***************************************************************************)
(* "Create All Tables & Indexes": the SQL texts handed to                  *)
(* execute_sql_statement, in call order.                                   *)
(***************************************************************************)
TableTexts_SkipLast ==
    [i \in 1..(Len(TableNames) - 1) |-> SqlOf(TABLE_SCHEMAS, TableNames[i])]

TableTexts ==
    [i \in 1..Len(TableNames) |-> SqlOf(TABLE_SCHEMAS, TableNames[i])]

IndexTexts == [i \in 1..Len(INDEX_SCHEMAS) |-> INDEX_SCHEMAS[i].sql]

RlsTexts == [i \in 1..Len(RLS_POLICIES) |-> RLS_POLICIES[i].sql]

CreateAllCalls_IndexesFirst(rlsChecked) ==
    << SqlOf(TABLE_SCHEMAS, "extensions") >>
    \o IndexTexts
    \o TableTexts
    \o (IF rlsChecked THEN RlsTexts ELSE << >>)

CreateAllCalls(rlsChecked) ==
    << SqlOf(TABLE_SCHEMAS, "extensions") >>
    \o TableTexts
    \o IndexTexts
    \o (IF rlsChecked THEN RlsTexts ELSE << >>)

\* result["success"] of each call of execute_sql_statement, in call order
\* (each call is made on the backend the calls before it left).
RECURSIVE CallResults(_, _)
CallResults(texts, db) ==
    IF texts = << >> THEN << >>
    ELSE CHOOSE rs \in {<< r.success >> \o CallResults(Tail(texts), r.db) :
                           r \in {execute_sql_statement(Head(texts), db)}} : TRUE

\* What the flow has on screen when it ends: the progress bar, the status
\* text, the tables with a "ready" line, the number in "... indexes ready",
\* and its st.sidebar.error / st.sidebar.warning lines.  calls: the texts
\* handed to execute_sql_statement; results: the success flag of each.
SetupReport(calls, results) ==
    LET Of(kind) == {i \in 1..Len(calls) : calls[i][1].kind = kind}
        failed_tables == {i \in Of("create_table") : ~ results[i]}
        failed_indexes == {i \in Of("create_index") : ~ results[i]}
    IN  [progress |-> 100,
         text |-> "Database setup complete!",
         ready |-> {calls[i][1].target : i \in Of("create_table") \ failed_tables},
         indexes |-> Cardinality(Of("create_index") \ failed_indexes),
         problems |->
            {<<"extensions", "error">> : i \in {j \in Of("create_extension") : ~ results[j]}}
            \cup {<<calls[i][1].target, "error">> : i \in failed_tables}
            \cup (IF failed_indexes # {} THEN {<<"indexes", "warning">>} ELSE {})]

(***************************************************************************)
(* "Show Complete SQL": complete_sql.                                      *)
(***************************************************************************)
GinWord == << "g", "i", "n" >>

ExpressionWords_Data ==
    { << "p", "r", "i", "c", "e" >>,
      << "b", "e", "d", "r", "o", "o", "m", "s" >>,
      << "d", "a", "t", "a" >> }

ExpressionWords ==
    { << "p", "r", "i", "c", "e" >>,
      << "b", "e", "d", "r", "o", "o", "m", "s" >>,
      << "p", "r", "o", "p", "e", "r", "t", "y", "_", "t", "y", "p", "e" >> }

basic_indexes ==
    SelectSeq(IndexNames,
              LAMBDA k : ~ \E x \in {GinWord} \cup ExpressionWords :
                               IsSubstring(x, Spelling[k]))

gin_indexes == SelectSeq(IndexNames, LAMBDA k : IsSubstring(GinWord, Spelling[k]))

expression_indexes ==
    SelectSeq(IndexNames,
              LAMBDA k : \E x \in ExpressionWords : IsSubstring(x, Spelling[k]))

TextsOf(catalog, keys) == [i \in 1..Len(keys) |-> SqlOf(catalog, keys[i])]

ShowCompleteSql ==
    Flatten(<< SqlOf(TABLE_SCHEMAS, "extensions") >>
            \o TableTexts
            \o TextsOf(INDEX_SCHEMAS, basic_indexes)
            \o TextsOf(INDEX_SCHEMAS, gin_indexes)
            \o TextsOf(INDEX_SCHEMAS, expression_indexes)
            \o RlsTexts)

(***************************************************************************)
(* Setup Guide tab: complete_sql of the download button.                   *)
(***************************************************************************)
GuideCompleteSql ==
    Flatten(<< << CreateExtension("uuid-ossp") >> >> \o TableTexts \o IndexTexts)


(***************************************************************************)
(* Requests to the backend made through the client (supabase.table(...)).  *)
(* A request on a table raises when the table does not exist and when the  *)
(* backend fails it (a constraint violation, a lost connection).  A part   *)
(* of the script is modelled by the requests it makes, the messages it     *)
(* shows (<<operation, level>>) and the backend it leaves.                 *)
(***************************************************************************)
Send(op, verb, t, db, fails) ==
    [op |-> op, verb |-> verb, table |-> t, ok |-> t \in db.tables /\ ~ fails]

\* One request per table, in order, up to the first that raises.
RECURSIVE SendEach(_, _, _, _, _)
SendEach(op, verb, tables, db, failing) ==
    IF tables = << >> THEN << >>
    ELSE LET r == Send(op, verb, Head(tables), db, Head(tables) \in failing)
         IN  IF r.ok
             THEN << r >> \o SendEach(op, verb, Tail(tables), db, failing)
             ELSE << r >>

Raised(reqs) == \E i \in 1..Len(reqs) : ~ reqs[i].ok

NoPart(db) == [requests |-> << >>, messages |-> {}, db |-> db]

\* The sidebar's connection block: init_client and "Connected" when the URL
\* and the key are there, the warning otherwise.
Sidebar(c) ==
    IF c.url /\ c.key THEN {<<"credentials", "success">>}
    ELSE {<<"credentials", "warning">>}

Stops_Never(c) == FALSE

\* else: st.warning(...); st.stop()
Stops(c) == ~ (c.url /\ c.key)

\* "Check Table Status": one get_table_info per table.
StatusRequests(db, failing) ==
    [i \in 1..Len(TableNames) |->
        Send("check_status", "select", TableNames[i], db, TableNames[i] \in failing)]

\* Setup Guide, "Test Database Connection": two selects on users in one try.
ConnectionTest(db, failing) ==
    LET reqs == SendEach("connection_test", "select", << "users", "users" >>,
                         db, failing)
    IN  [requests |-> reqs,
         messages |->
            IF Raised(reqs)
            THEN {<<"connection_test", "error">>, <<"connection_test", "info">>}
            ELSE {<<"connection_test", "success">>,
                  <<"connection_test",
                    IF db.rows["users"] > 0 THEN "info" ELSE "warning">>}]

\* Setup Guide, "Connection status": if url and key: ... else: st.warning(...)
ConnectionStatus(c, db, failing) ==
    IF c.url /\ c.key
    THEN ConnectionTest(db, failing)
    ELSE [requests |-> << >>, messages |-> {<<"connection_test", "credentials">>}]

\* fetch_data: the number of rows of the frame it returns (the limit, 10 to
\* 500, is above the rows a table holds here), empty when the select raised.
fetch_data(table, db, failing) ==
    LET reqs == SendEach("fetch_data", "select", << table >>, db, failing)
    IN  [requests |-> reqs,
         df |-> IF Raised(reqs) THEN 0 ELSE db.rows[table],
         messages |-> IF Raised(reqs) THEN {<<"fetch_data", "error">>} ELSE {}]

\* Data Viewer tab: "No records in ... table yet." for an empty frame, the
\* frame and its statistics otherwise.
DataViewer(table, db, failing) ==
    LET f == fetch_data(table, db, failing)
    IN  [requests |-> f.requests,
         messages |-> f.messages
                      \cup {<<"fetch_data", IF f.df = 0 THEN "empty" ELSE "data">>}]

\* Analytics tab, quick metrics: four counts in one try; the metrics are
\* shown when all four returned, st.info(...) when one raised.
MetricTables == << "users", "properties", "api_usage", "market_alerts" >>

QuickMetrics(db, failing) ==
    LET reqs == SendEach("analytics", "select", MetricTables, db, failing)
    IN  [requests |-> reqs,
         messages |-> IF Raised(reqs) THEN {<<"analytics", "info">>}
                      ELSE {<<"analytics", "data">>}]

\* The tabs of one script run: `top` is what the schema sidebar did before
\* them, `entry` what the SQL Queries and Data Entry tabs did between the
\* Data Viewer and the Analytics tab; `seen` is the backend as the first
\* tabs find it.
\* `c` is what the sidebar's text inputs hold: the run ends at the
\* credentials check when one is empty.
Tabs(c, top, table, seen, entry, failing) ==
    IF Stops(c)
    THEN [requests |-> << >>, messages |-> Sidebar(c), db |-> seen]
    ELSE LET test == ConnectionStatus(c, seen, failing)
             view == DataViewer(table, seen, failing)
             metrics == QuickMetrics(entry.db, failing)
         IN  [requests |-> top.requests \o test.requests \o view.requests
                           \o entry.requests \o metrics.requests,
              messages |-> Sidebar(c) \cup top.messages \cup test.messages
                           \cup view.messages \cup entry.messages
                           \cup metrics.messages,
              db |-> entry.db]

(***************************************************************************)
(* SQL Queries tab.  A query text is the sequence of its pieces, " " a     *)
(* blank one.                                                              *)
(***************************************************************************)
\* list(query_examples.keys())
query_examples ==
    << "User Activity Summary",
       "Properties by Price Range (Uses Expression Index)",
       "JSONB Search Examples (Uses GIN Index)",
       "API Usage Analytics",
       "User Favorites & Notes",
       "Market Alert Summary",
       "Property Search Patterns" >>

\* What the operator typed into "Enter your SQL query:".
CustomQueries ==
    { << >>, << " ", " " >>, << "SELECT * FROM users LIMIT 10;" >>,
      << " ", "DELETE FROM users;", " " >> }

\* custom_query.strip()
RECURSIVE strip(_)
strip(text) ==
    IF text = << >> THEN << >>
    ELSE IF Head(text) = " " THEN strip(Tail(text))
    ELSE IF text[Len(text)] = " " THEN strip(SubSeq(text, 1, Len(text) - 1))
    ELSE text

RunExample_CallsRpc(selected_query, db) ==
    [requests |-> << [op |-> "run_example", verb |-> "rpc", table |-> "users",
                      ok |-> TRUE] >>,
     messages |-> {<<"run_example", "data">>},
     db |-> db]

\* "Run <selected_query>": the hint and the text of an RPC function.
RunExample(selected_query, db) ==
    [requests |-> << >>,
     messages |-> {<<"run_example", "info">>, <<"run_example", "code">>},
     db |-> db]

\* "Execute": the hint and the query, when the query is not blank.
ExecuteCustom(custom_query, db) ==
    [requests |-> << >>,
     messages |-> IF strip(custom_query) # << >>
                  THEN {<<"execute", "info">>, <<"execute", "code">>}
                  ELSE {},
     db |-> db]

(***************************************************************************)
(* Data Entry tab.  Rows are counted per table; what a row holds is not    *)
(* modelled, so an insert the backend rejects for what it holds (a         *)
(* duplicate email or property_hash) is one of the requests that fail.     *)
(***************************************************************************)
\* The options of entry_choice, and the form each one shows.
EntryTables ==
    << "users", "properties", "api_usage", "market_alerts", "saved_searches" >>

FormOf ==
    [users |-> "add_user", properties |-> "add_property",
     api_usage |-> "add_api_usage", market_alerts |-> "add_alert",
     saved_searches |-> "add_search"]

Inserted(db, t, n) == [db EXCEPT !.rows[t] = @ + n]

Cleared(db, ts) ==
    [db EXCEPT !.rows = [t \in Tables |-> IF t \in ts THEN 0 ELSE @[t]]]

Min(a, b) == IF a <= b THEN a ELSE b

\* The criteria texts tried, and whether json.loads returns or raises
\* JSONDecodeError on each.
json_loads ==
    ("" :> "raises") @@ (" " :> "raises") @@ ("{\"max_price\": 500000}" :> "returns")
    @@ ("[]" :> "returns") @@ ("{max_price" :> "raises")

\* What the operator typed into the fields the form checks (the fields of
\* the api_usage form are not checked).
FormInputs(t) ==
    CASE t = "users" -> [email : {"", "user@example.com"}]
      [] t = "properties" -> [address : {"", "123 Main St"}, price : {0, 250000}]
      [] t = "api_usage" -> [query : {"", "search properties in Seattle"}]
      [] t = "market_alerts" ->
            [alert_name : {"", "Price Drop"},
             criteria_json : {"", " ", "{\"max_price\": 500000}", "{max_price"}]
      [] t = "saved_searches" ->
            [search_name : {"", "3BR Houses"},
             criteria_json : {"", "[]", "{max_price"}]

Rejected_AnyPrice(t, input) ==
    CASE t = "users" -> input.email = ""
      [] t = "properties" -> input.address = ""
      [] t = "api_usage" -> FALSE
      [] t = "market_alerts" ->
            \/ input.alert_name = "" \/ input.criteria_json = ""
            \/ json_loads[input.criteria_json] = "raises"
      [] t = "saved_searches" ->
            \/ input.search_name = "" \/ input.criteria_json = ""
            \/ json_loads[input.criteria_json] = "raises"

\* The submit ends in st.error before the insert: `if email:`,
\* `if address and price > 0:`, `if alert_name and criteria_json:` and
\* `if search_name and criteria_json:` (a string is true unless empty), and
\* json.loads(criteria_json) raising inside the try.
Rejected(t, input) ==
    CASE t = "users" -> input.email = ""
      [] t = "properties" -> ~ (input.address # "" /\ input.price > 0)
      [] t = "api_usage" -> FALSE
      [] t = "market_alerts" ->
            \/ ~ (input.alert_name # "" /\ input.criteria_json # "")
            \/ json_loads[input.criteria_json] = "raises"
      [] t = "saved_searches" ->
            \/ ~ (input.search_name # "" /\ input.criteria_json # "")
            \/ json_loads[input.criteria_json] = "raises"

\* st.form_submit_button(...) of the form of table t.
FormSubmit(t, input, db, failing) ==
    IF Rejected(t, input)
    THEN [requests |-> << >>, messages |-> {<<FormOf[t], "error">>}, db |-> db]
    ELSE LET reqs == SendEach(FormOf[t], "insert", << t >>, db, failing)
         IN  IF Raised(reqs)
             THEN [requests |-> reqs, messages |-> {<<FormOf[t], "error">>},
                   db |-> db]
             ELSE [requests |-> reqs, messages |-> {<<FormOf[t], "success">>},
                   db |-> Inserted(db, t, 1)]

\* len(sample_properties), len(sample_users), len(sample_alerts)
SampleProperties == 10

SampleUsers == 3

SampleAlerts == 2

\* A loop of n inserts into t inside one try: when the backend fails the
\* requests on t, okBefore of them went through before the one that raised.
InsertLoop(op, t, n, db, failing, okBefore) ==
    LET k == IF t \notin db.tables THEN 0
             ELSE IF t \in failing THEN Min(okBefore, n)
             ELSE n
    IN  [requests |-> [i \in 1..Min(k + 1, n) |-> Send(op, "insert", t, db, i > k)],
         db |-> Inserted(db, t, k)]

\* "Generate 10 Sample Properties"
GenerateProperties(db, failing, okBefore) ==
    LET loop == InsertLoop("generate_properties", "properties",
                           SampleProperties, db, failing, okBefore)
    IN  [requests |-> loop.requests,
         messages |-> {<<"generate_properties",
                         IF Raised(loop.requests) THEN "error" ELSE "success">>},
         db |-> loop.db]

\* The ids the backend gives the rows of a loop's inserts that went
\* through (BIGSERIAL): `first`, then the ones after it.
ReturnedIds(reqs, first) ==
    [i \in 1..Cardinality({j \in 1..Len(reqs) : reqs[j].ok}) |-> first + i - 1]

GenerateUsersAlerts_ForUserOne(db, failing, okBefore, first) ==
    LET users == InsertLoop("generate_users_alerts", "users", SampleUsers,
                            db, failing, okBefore)
        user_ids == ReturnedIds(users.requests, first)
        alerts == IF Raised(users.requests) THEN NoPart(users.db)
                  ELSE InsertLoop("generate_users_alerts", "market_alerts",
                                  SampleAlerts, users.db, failing, okBefore)
        reqs == users.requests \o alerts.requests
    IN  [requests |-> reqs,
         messages |-> {<<"generate_users_alerts",
                         IF Raised(reqs) THEN "error" ELSE "success">>},
         db |-> alerts.db,
         user_ids |-> user_ids,
         alert_user_ids |-> [i \in 1..Len(alerts.requests) |-> 1]]

\* "Generate Sample Users & Alerts": the users, then the alerts with
\* alert["user_id"] = user_ids[0], in one try.
GenerateUsersAlerts(db, failing, okBefore, first) ==
    LET users == InsertLoop("generate_users_alerts", "users", SampleUsers,
                            db, failing, okBefore)
        user_ids == ReturnedIds(users.requests, first)
        alerts == IF Raised(users.requests) THEN NoPart(users.db)
                  ELSE InsertLoop("generate_users_alerts", "market_alerts",
                                  SampleAlerts, users.db, failing, okBefore)
        reqs == users.requests \o alerts.requests
    IN  [requests |-> reqs,
         messages |-> {<<"generate_users_alerts",
                         IF Raised(reqs) THEN "error" ELSE "success">>},
         db |-> alerts.db,
         user_ids |-> user_ids,
         alert_user_ids |-> [i \in 1..Len(alerts.requests) |-> user_ids[1]]]

(***************************************************************************)
(* Sidebar, Data Management (the last part of the script).                 *)
(***************************************************************************)
\* "Clear All API Usage": delete().neq("id", 0)
ClearAllApiUsage(db, failing) ==
    LET reqs == SendEach("clear_api_usage", "delete", << "api_usage" >>, db, failing)
    IN  IF Raised(reqs)
        THEN [requests |-> reqs, messages |-> {<<"clear_api_usage", "error">>},
              db |-> db]
        ELSE [requests |-> reqs, messages |-> {<<"clear_api_usage", "success">>},
              db |-> Cleared(db, {"api_usage"})]

\* "Delete Sample Properties": delete().eq("user_id", 1); `owned` of the
\* rows of properties have user_id 1.
DeleteSampleProperties(db, failing, owned) ==
    LET reqs == SendEach("delete_sample_properties", "delete", << "properties" >>,
                         db, failing)
    IN  IF Raised(reqs)
        THEN [requests |-> reqs,
              messages |-> {<<"delete_sample_properties", "error">>}, db |-> db]
        ELSE [requests |-> reqs,
              messages |-> {<<"delete_sample_properties", "success">>},
              db |-> [db EXCEPT !.rows["properties"] = @ - owned]]

tables_to_clear_UsersFirst ==
    << "users", "api_usage", "market_alerts", "saved_searches",
       "property_comparisons", "properties", "user_preferences",
       "user_sessions", "portfolio_analytics" >>

tables_to_clear ==
    << "api_usage", "market_alerts", "saved_searches", "property_comparisons",
       "properties", "user_preferences", "user_sessions", "portfolio_analytics",
       "users" >>

ResetAllData_Unconfirmed(checked, db, failing) ==
    LET reqs == SendEach("reset_all_data", "delete", tables_to_clear, db, failing)
    IN  [requests |-> reqs,
         messages |-> {<<"reset_all_data",
                         IF Raised(reqs) THEN "error" ELSE "success">>},
         db |-> Cleared(db, {reqs[i].table : i \in {j \in 1..Len(reqs) : reqs[j].ok}})]

\* "Reset All Data", in a run where the button reads True: the deletes are
\* inside `if st.checkbox("I understand this will delete ALL data")`.
ResetAllData(checked, db, failing) ==
    IF ~ checked THEN NoPart(db)
    ELSE LET reqs == SendEach("reset_all_data", "delete", tables_to_clear,
                              db, failing)
         IN  [requests |-> reqs,
              messages |-> {<<"reset_all_data",
                              IF Raised(reqs) THEN "error" ELSE "success">>},
              db |-> Cleared(db, {reqs[i].table : i \in {j \in 1..Len(reqs) : reqs[j].ok}})]

(***************************************************************************)
(* State.                                                                  *)
(***************************************************************************)
VARIABLES
    creds,         \* the sidebar's text inputs: is the URL / the API key non-empty
    button,        \* the button whose click triggered the last script run
    rlsBox,        \* the "Enable Row Level Security" checkbox in the session
    rlsRequested,  \* the last script run was triggered by ticking that checkbox
    plan,          \* statements handed to execute_sql_statement in the last run
    export,        \* complete_sql of "Show Complete SQL" in the last run
    guideSql,      \* complete_sql of the Setup Guide tab in the last run
    status,        \* what "Check Table Status" wrote in the last run
    outcome,       \* how each introspection query of the last run ended
    db,            \* the backend
    editor,        \* the Supabase SQL editor: the pasted script and its progress
    last,          \* the last step: "load"; "run", a script run triggered in the
                   \* connection or schema sidebar; "data", one triggered in the
                   \* tabs or in Data Management; "sql", a step in the SQL editor
    repeated,      \* the last script run was triggered as the run before it was
    catalogs,      \* the module's dictionaries, as the last run that defined
                   \* them left them
    choice,        \* the Data Viewer's "Choose Table" selectbox
    resetBox,      \* the "I understand this will delete ALL data" checkbox
    setup,         \* what "Create All Tables & Indexes" had on screen at its end
    requests,      \* the requests the last script run sent to the backend
    messages,      \* the messages the last script run showed: <<operation, level>>
    form,          \* the Data Entry form the last script run was submitted
                   \* from, and what the operator had typed into it
    sample,        \* the ids "Generate Sample Users & Alerts" got back and
                   \* the ids it sent, in the last script run
    appliers       \* the operators applying the Setup Guide's SQL by hand,
                   \* each in a SQL editor of their own

vars ==
    << creds, button, rlsBox, rlsRequested, plan, export, guideSql, status,
       outcome, db, editor, last, repeated, catalogs, choice, resetBox, setup,
       requests, messages, form, sample, appliers >>

RECURSIVE SubsetsUpTo(_, _)
SubsetsUpTo(S, n) ==
    IF n = 0 THEN {{}}
    ELSE LET P == SubsetsUpTo(S, n - 1)
         IN  P \cup {A \cup {x} : A \in P, x \in S}

\* The backends the dashboard may be pointed at: a few tables and some of
\* their indexes, no rows yet.
InitBackends ==
    {[EmptyBackend EXCEPT !.tables = x[1], !.indexes = x[2]] :
        x \in {y \in SubsetsUpTo(Tables, MaxInitObjects)
                      \X SubsetsUpTo(Indexes, MaxInitObjects) :
                 /\ Cardinality(y[1]) + Cardinality(y[2]) <= MaxInitObjects
                 /\ \A i \in y[2] : TableOfIndex(i) \in y[1]}}

NoStatus == [t \in Tables |-> [shown |-> "none", count |-> 0]]

NoOutcome == [t \in Tables |-> "none"]

NoSetup ==
    [progress |-> 0, text |-> "", ready |-> {}, indexes |-> 0, problems |-> {}]

IdleEditor ==
    [src |-> "none", script |-> << >>, pos |-> 0, failed |-> FALSE,
     resumed |-> FALSE]

NoForm == [table |-> "none", input |-> [none |-> ""]]

NoSample == [user_ids |-> << >>, alert_user_ids |-> << >>]

\* The operators who apply the SQL by hand.
Appliers == {1, 2}

NoAppliers ==
    [of |-> [a \in Appliers |->
                [script |-> << >>, pos |-> 0, looked |-> "none", failed |-> FALSE]],
     duplicates |-> {}]

\* No run has reached the definitions of the dictionaries yet.
NotDefined == [tables |-> << >>, indexes |-> << >>, policies |-> << >>]

\* TABLE_SCHEMAS = {...}, INDEX_SCHEMAS = {...}, RLS_POLICIES = {...}: every
\* run that passes the credentials check defines them anew.
ModuleCatalogs ==
    [tables |-> TABLE_SCHEMAS, indexes |-> INDEX_SCHEMAS, policies |-> RLS_POLICIES]

CatalogsAfterRun_DropsExtensions(defined) == [defined EXCEPT !.tables = Tail(@)]

\* The dictionaries at the end of a run: the script reads them
\* (.items(), .keys(), [...]) and never assigns to them or into them.
CatalogsAfterRun(defined) == defined

\* The page as first loaded: the URL input has a default, the key input is
\* empty, and the script stops at the credentials warning.
FirstLoad ==
    /\ creds = [url |-> TRUE, key |-> FALSE]
    /\ button = "none"
    /\ rlsBox = "absent"
    /\ rlsRequested = FALSE
    /\ plan = << >>
    /\ export = << >>
    /\ guideSql = << >>
    /\ status = NoStatus
    /\ outcome = NoOutcome
    /\ editor = IdleEditor
    /\ last = "load"
    /\ repeated = FALSE
    /\ catalogs = NotDefined
    /\ choice = "users"
    /\ resetBox = "absent"
    /\ setup = NoSetup
    /\ requests = << >>
    /\ messages = {<<"credentials", "warning">>}
    /\ form = NoForm
    /\ sample = NoSample
    /\ appliers = NoAppliers

Init == FirstLoad /\ db \in InitBackends

\* The page past the credentials check is there for the operator to act on.
Connected == ~ Stops(creds)

\* The value st.sidebar.checkbox returns: the widget's value in the session,
\* False for a widget the previous run did not render.
Checkbox(box) == box = "checked"

\* A run in which no form is submitted and no sample is generated.
EntryIdle ==
    /\ form' = NoForm
    /\ sample' = NoSample

\* The run shows what its parts showed.
Shows(run) ==
    /\ requests' = run.requests
    /\ messages' = run.messages

(***************************************************************************)
(* Script runs triggered in the connection and schema sidebar.             *)
(***************************************************************************)
\* The operator edits the URL or the key.
EditCredentials(u, k) ==
    /\ [url |-> u, key |-> k] # creds
    /\ creds' = [url |-> u, key |-> k]
    /\ button' = "none"
    /\ rlsBox' = "absent"
    /\ rlsRequested' = FALSE
    /\ plan' = << >>
    /\ export' = << >>
    /\ guideSql' = IF Stops([url |-> u, key |-> k]) THEN << >>
                   ELSE GuideCompleteSql
    /\ status' = NoStatus
    /\ outcome' = NoOutcome
    /\ last' = "run"
    /\ repeated' = FALSE
    /\ catalogs' = IF Stops([url |-> u, key |-> k]) THEN catalogs
                   ELSE CatalogsAfterRun(ModuleCatalogs)
    /\ resetBox' = "absent"
    /\ setup' = NoSetup
    /\ Shows(Tabs([url |-> u, key |-> k], NoPart(db), choice, db, NoPart(db), {}))
    /\ EntryIdle
    /\ UNCHANGED << db, editor, choice, appliers >>

\* "Check Table Status"; `failing` are the tables whose query fails.
CheckTableStatus(failing) ==
    /\ Connected
    /\ button' = "check_status"
    /\ rlsBox' = "absent"
    /\ rlsRequested' = FALSE
    /\ plan' = << >>
    /\ export' = << >>
    /\ guideSql' = GuideCompleteSql
    /\ status' = [t \in Tables |->
                    LET info == get_table_info(t, db, failing)
                    IN  IF info.exists
                        THEN [shown |-> "records", count |-> info.count]
                        ELSE [shown |-> "missing", count |-> 0]]
    /\ outcome' = [t \in Tables |-> TableQuery(t, db, failing)]
    /\ last' = "run"
    /\ repeated' = (button = "check_status")
    /\ catalogs' = CatalogsAfterRun(ModuleCatalogs)
    /\ resetBox' = "absent"
    /\ setup' = NoSetup
    /\ Shows(Tabs(creds, [requests |-> StatusRequests(db, failing), messages |-> {}],
                  choice, db, NoPart(db), failing))
    /\ EntryIdle
    /\ UNCHANGED << creds, db, editor, choice, appliers >>

CreateAll_KeepsOldPlan ==
    /\ Connected
    /\ LET rlsChecked == Checkbox(rlsBox)
           calls == CreateAllCalls(rlsChecked)
           after == ExecuteEach(calls, db)
       IN  /\ plan' = plan \o Flatten(calls)
           /\ db' = after
           /\ rlsBox' = IF rlsChecked THEN "checked" ELSE "unchecked"
           /\ setup' = SetupReport(calls, CallResults(calls, db))
           /\ Shows(Tabs(creds, NoPart(db), choice, after, NoPart(after), {}))
    /\ button' = "create_all"
    /\ rlsRequested' = FALSE
    /\ export' = << >>
    /\ guideSql' = GuideCompleteSql
    /\ status' = NoStatus
    /\ outcome' = NoOutcome
    /\ last' = "run"
    /\ repeated' = (button = "create_all")
    /\ catalogs' = CatalogsAfterRun(ModuleCatalogs)
    /\ resetBox' = "absent"
    /\ EntryIdle
    /\ UNCHANGED << creds, editor, choice, appliers >>

\* "Create All Tables & Indexes".
CreateAll ==
    /\ Connected
    /\ LET rlsChecked == Checkbox(rlsBox)
           calls == CreateAllCalls(rlsChecked)
           after == ExecuteEach(calls, db)
       IN  /\ plan' = Flatten(calls)
           /\ db' = after
           /\ rlsBox' = IF rlsChecked THEN "checked" ELSE "unchecked"
           /\ setup' = SetupReport(calls, CallResults(calls, db))
           /\ Shows(Tabs(creds, NoPart(db), choice, after, NoPart(after), {}))
    /\ button' = "create_all"
    /\ rlsRequested' = FALSE
    /\ export' = << >>
    /\ guideSql' = GuideCompleteSql
    /\ status' = NoStatus
    /\ outcome' = NoOutcome
    /\ last' = "run"
    /\ repeated' = (button = "create_all")
    /\ catalogs' = CatalogsAfterRun(ModuleCatalogs)
    /\ resetBox' = "absent"
    /\ EntryIdle
    /\ UNCHANGED << creds, editor, choice, appliers >>

\* "Show Complete SQL".
ShowCompleteSQL ==
    /\ Connected
    /\ button' = "show_sql"
    /\ rlsBox' = "absent"
    /\ rlsRequested' = FALSE
    /\ plan' = << >>
    /\ export' = ShowCompleteSql
    /\ guideSql' = GuideCompleteSql
    /\ status' = NoStatus
    /\ outcome' = NoOutcome
    /\ last' = "run"
    /\ repeated' = (button = "show_sql")
    /\ catalogs' = CatalogsAfterRun(ModuleCatalogs)
    /\ resetBox' = "absent"
    /\ setup' = NoSetup
    /\ Shows(Tabs(creds, NoPart(db), choice, db, NoPart(db), {}))
    /\ EntryIdle
    /\ UNCHANGED << creds, db, editor, choice, appliers >>

\* "Show Index Details".
ShowIndexDetails ==
    /\ Connected
    /\ button' = "index_details"
    /\ rlsBox' = "absent"
    /\ rlsRequested' = FALSE
    /\ plan' = << >>
    /\ export' = << >>
    /\ guideSql' = GuideCompleteSql
    /\ status' = NoStatus
    /\ outcome' = NoOutcome
    /\ last' = "run"
    /\ repeated' = (button = "index_details")
    /\ catalogs' = CatalogsAfterRun(ModuleCatalogs)
    /\ resetBox' = "absent"
    /\ setup' = NoSetup
    /\ Shows(Tabs(creds, NoPart(db), choice, db, NoPart(db), {}))
    /\ EntryIdle
    /\ UNCHANGED << creds, db, editor, choice, appliers >>

\* The operator ticks "Enable Row Level Security", which the previous run
\* rendered inside the "Create All Tables & Indexes" block.  The click
\* triggers a run in which no button reads True, so the block and the
\* checkbox in it are not reached, and the session drops the widget.
TickRls ==
    /\ Connected
    /\ rlsBox # "absent"
    /\ rlsRequested' = ~ Checkbox(rlsBox)
    /\ button' = "none"
    /\ rlsBox' = "absent"
    /\ plan' = << >>
    /\ export' = << >>
    /\ guideSql' = GuideCompleteSql
    /\ status' = NoStatus
    /\ outcome' = NoOutcome
    /\ last' = "run"
    /\ repeated' = FALSE
    /\ catalogs' = CatalogsAfterRun(ModuleCatalogs)
    /\ resetBox' = "absent"
    /\ setup' = NoSetup
    /\ Shows(Tabs(creds, NoPart(db), choice, db, NoPart(db), {}))
    /\ EntryIdle
    /\ UNCHANGED << creds, db, editor, choice, appliers >>

Next ==
    \/ \E u \in BOOLEAN, k \in BOOLEAN : EditCredentials(u, k)
    \/ \E failing \in {{}} \cup {{t} : t \in Tables} : CheckTableStatus(failing)
    \/ CreateAll
    \/ ShowCompleteSQL
    \/ ShowIndexDetails
    \/ TickRls

Spec == Init /\ [][Next]_vars

(***************************************************************************)
(* The emitted SQL run by hand: the operator copies what the dashboard     *)
(* shows ("Copy SQL commands below to run in Supabase SQL editor") and     *)
(* runs it; the database executes the statements in order, and the run     *)
(* ends at the first statement that fails or when the operator abandons    *)
(* it, by pasting again.  editor.resumed: the previous run of the same SQL *)
(* stopped early and the dashboard emitted the SQL again before this run.  *)
(***************************************************************************)
Emitted(src) ==
    CASE src = "plan" -> plan
      [] src = "export" -> export

PasteIntoSqlEditor(src) ==
    /\ Emitted(src) # << >>
    /\ editor' =
         [src |-> src, script |-> Emitted(src), pos |-> 0, failed |-> FALSE,
          resumed |-> /\ editor.src = src
                      /\ editor.pos > 0
                      /\ editor.pos < Len(editor.script)
                      /\ last = "run"]
    /\ last' = "sql"
    /\ UNCHANGED << creds, button, rlsBox, rlsRequested, plan, export,
                    guideSql, status, outcome, db, repeated, catalogs, choice,
                    resetBox, setup, requests, messages, form, sample,
                    appliers >>

RunNextStatement ==
    /\ editor.pos < Len(editor.script)
    /\ ~ editor.failed
    /\ LET r == ApplyStatement(editor.script[editor.pos + 1], db)
       IN  /\ db' = r.db
           /\ editor' = IF r.ok
                        THEN [editor EXCEPT !.pos = @ + 1]
                        ELSE [editor EXCEPT !.failed = TRUE]
    /\ last' = "sql"
    /\ UNCHANGED << creds, button, rlsBox, rlsRequested, plan, export,
                    guideSql, status, outcome, repeated, catalogs, choice,
                    resetBox, setup, requests, messages, form, sample,
                    appliers >>

\* The backends of the runs by hand: an empty project; one where users
\* exists; one where a later table and one of its indexes exist and users
\* does not; one with every declared table and index; one where users has
\* enforcement enabled and a policy.
SqlEditorBackends ==
    { EmptyBackend,
      [EmptyBackend EXCEPT !.tables = {"users"}],
      [EmptyBackend EXCEPT !.tables = {"properties"},
                           !.indexes = {"idx_properties_price"}],
      [EmptyBackend EXCEPT !.tables = Tables, !.indexes = Indexes],
      [EmptyBackend EXCEPT !.tables = {"users"}, !.rls = {"users"},
                           !.policies = {<<"users", "Users can view own profile">>}] }

InitSql == FirstLoad /\ db \in SqlEditorBackends

NextSql ==
    \/ \E u \in BOOLEAN, k \in BOOLEAN : EditCredentials(u, k)
    \/ CreateAll
    \/ ShowCompleteSQL
    \/ \E src \in {"plan", "export"} : PasteIntoSqlEditor(src)
    \/ RunNextStatement

SpecSql == InitSql /\ [][NextSql]_vars

(***************************************************************************)
(* Two operators apply the Setup Guide's SQL at once, each from a          *)
(* dashboard and a SQL editor of their own.  Nothing in App.py or in the   *)
(* SQL keeps one from running a statement while the other runs the same    *)
(* one, so a statement is two steps of the database: it looks whether the  *)
(* object exists (IF NOT EXISTS), then creates it or skips.  A create that *)
(* finds the object made in between is a race the SQL leaves to the        *)
(* database: it ends in the duplicate-object error or in the skip.         *)
(***************************************************************************)
RaceOutcomes == {"raise", "skip"}

ApplyLooked_Recreates(s, looked, backend, race) ==
    [ok |-> TRUE, db |-> Created(s, backend),
     duplicate |-> looked = "missing" /\ Exists(s, backend)]

\* The second step of statement s, `looked` being what the first step saw.
ApplyLooked(s, looked, backend, race) ==
    IF s.kind # "create_extension" /\ s.kind # "create_table"
       /\ s.on \notin backend.tables
    THEN [ok |-> FALSE, db |-> backend, duplicate |-> FALSE]
    ELSE IF looked = "present"
    THEN [ok |-> s.guarded, db |-> backend, duplicate |-> FALSE]
    ELSE IF Exists(s, backend)
    THEN [ok |-> race = "skip" /\ s.guarded, db |-> backend, duplicate |-> FALSE]
    ELSE [ok |-> TRUE, db |-> Created(s, backend), duplicate |-> FALSE]

\* Operator a takes complete_sql from the Setup Guide of their dashboard
\* (again, after a run that failed) and pastes it into their SQL editor.
TakeGuideSql(a) ==
    /\ \/ appliers.of[a].script = << >>
       \/ appliers.of[a].failed
    /\ appliers' =
          [appliers EXCEPT !.of[a] =
              [script |-> GuideCompleteSql, pos |-> 0, looked |-> "none",
               failed |-> FALSE]]
    /\ last' = "sql"
    /\ UNCHANGED << creds, button, rlsBox, rlsRequested, plan, export,
                    guideSql, status, outcome, db, editor, repeated, catalogs,
                    choice, resetBox, setup, requests, messages, form, sample >>

\* The database looks whether the object of a's next statement exists.
LookForObject(a) ==
    LET me == appliers.of[a]
    IN  /\ me.pos < Len(me.script)
        /\ ~ me.failed
        /\ me.looked = "none"
        /\ appliers' =
              [appliers EXCEPT !.of[a].looked =
                  IF Exists(me.script[me.pos + 1], db) THEN "present"
                  ELSE "missing"]
        /\ last' = "sql"
        /\ UNCHANGED << creds, button, rlsBox, rlsRequested, plan, export,
                        guideSql, status, outcome, db, editor, repeated,
                        catalogs, choice, resetBox, setup, requests, messages,
                        form, sample >>

\* The database ends a's next statement.
EndStatement(a, race) ==
    LET me == appliers.of[a]
        s == me.script[me.pos + 1]
        r == ApplyLooked(s, me.looked, db, race)
    IN  /\ me.looked # "none"
        /\ ~ me.failed
        /\ race = "raise" \/ (me.looked = "missing" /\ Exists(s, db))
        /\ db' = r.db
        /\ appliers' =
              [of |-> [appliers.of EXCEPT ![a] =
                         IF r.ok
                         THEN [me EXCEPT !.pos = @ + 1, !.looked = "none"]
                         ELSE [me EXCEPT !.failed = TRUE]],
               duplicates |-> appliers.duplicates
                              \cup (IF r.duplicate THEN {s.target} ELSE {})]
        /\ last' = "sql"
        /\ UNCHANGED << creds, button, rlsBox, rlsRequested, plan, export,
                        guideSql, status, outcome, editor, repeated, catalogs,
                        choice, resetBox, setup, requests, messages, form,
                        sample >>

\* The projects the two operators apply to: an empty one; one where users
\* exists; one where a later table and one of its indexes exist.
ApplierBackends ==
    { EmptyBackend,
      [EmptyBackend EXCEPT !.tables = {"users"}],
      [EmptyBackend EXCEPT !.tables = {"properties"},
                           !.indexes = {"idx_properties_price"}] }

InitAppliers == FirstLoad /\ db \in ApplierBackends

NextAppliers ==
    \/ \E a \in Appliers : TakeGuideSql(a)
    \/ \E a \in Appliers : LookForObject(a)
    \/ \E a \in Appliers, race \in RaceOutcomes : EndStatement(a, race)

SpecAppliers == InitAppliers /\ [][NextAppliers]_vars

(***************************************************************************)
(* Script runs triggered in the tabs and in Data Management.               *)
(***************************************************************************)
\* Most rows the backend holds when an insert is started.
MaxRows == 2

TotalRows(backend) ==
    backend.rows["users"] + backend.rows["properties"]
    + backend.rows["api_usage"] + backend.rows["market_alerts"]
    + backend.rows["saved_searches"]

\* In these runs no button of the schema sidebar reads True.
SchemaSidebarIdle ==
    /\ rlsBox' = "absent"
    /\ rlsRequested' = FALSE
    /\ plan' = << >>
    /\ export' = << >>
    /\ guideSql' = GuideCompleteSql
    /\ status' = NoStatus
    /\ outcome' = NoOutcome
    /\ setup' = NoSetup
    /\ repeated' = FALSE
    /\ catalogs' = CatalogsAfterRun(ModuleCatalogs)
    /\ last' = "data"

\* The operator picks another table in the Data Viewer.
ChooseTable(t, failing) ==
    /\ Connected
    /\ t # choice
    /\ choice' = t
    /\ button' = "none"
    /\ resetBox' = "absent"
    /\ SchemaSidebarIdle
    /\ Shows(Tabs(creds, NoPart(db), t, db, NoPart(db), failing))
    /\ EntryIdle
    /\ UNCHANGED << creds, db, editor, appliers >>

\* "Run <selected_query>" in the SQL Queries tab.
PressRunExample(selected_query, failing) ==
    /\ Connected
    /\ LET run == Tabs(creds, NoPart(db), choice, db, RunExample(selected_query, db),
                       failing)
       IN  /\ Shows(run)
           /\ db' = run.db
    /\ button' = "run_example"
    /\ resetBox' = "absent"
    /\ SchemaSidebarIdle
    /\ EntryIdle
    /\ UNCHANGED << creds, editor, choice, appliers >>

\* "Execute" in the SQL Queries tab.
PressExecute(custom_query, failing) ==
    /\ Connected
    /\ LET run == Tabs(creds, NoPart(db), choice, db, ExecuteCustom(custom_query, db),
                       failing)
       IN  /\ Shows(run)
           /\ db' = run.db
    /\ button' = "execute"
    /\ resetBox' = "absent"
    /\ SchemaSidebarIdle
    /\ EntryIdle
    /\ UNCHANGED << creds, editor, choice, appliers >>

\* The operator submits the Data Entry form of table t.
SubmitForm(t, input, failing) ==
    /\ Connected
    /\ TotalRows(db) < MaxRows
    /\ LET run == Tabs(creds, NoPart(db), choice, db, FormSubmit(t, input, db, failing),
                       failing)
       IN  /\ Shows(run)
           /\ db' = run.db
    /\ button' = FormOf[t]
    /\ resetBox' = "absent"
    /\ SchemaSidebarIdle
    /\ form' = [table |-> t, input |-> input]
    /\ sample' = NoSample
    /\ UNCHANGED << creds, editor, choice, appliers >>

\* "Generate 10 Sample Properties"
PressGenerateProperties(failing, okBefore) ==
    /\ Connected
    /\ TotalRows(db) < MaxRows
    /\ LET run == Tabs(creds, NoPart(db), choice, db,
                       GenerateProperties(db, failing, okBefore), failing)
       IN  /\ Shows(run)
           /\ db' = run.db
    /\ button' = "generate_properties"
    /\ resetBox' = "absent"
    /\ SchemaSidebarIdle
    /\ EntryIdle
    /\ UNCHANGED << creds, editor, choice, appliers >>

\* "Generate Sample Users & Alerts"
PressGenerateUsersAlerts(failing, okBefore, first) ==
    /\ Connected
    /\ TotalRows(db) < MaxRows
    /\ LET made == GenerateUsersAlerts(db, failing, okBefore, first)
           run == Tabs(creds, NoPart(db), choice, db, made, failing)
       IN  /\ Shows(run)
           /\ db' = run.db
           /\ sample' = [user_ids |-> made.user_ids,
                         alert_user_ids |-> made.alert_user_ids]
    /\ button' = "generate_users_alerts"
    /\ resetBox' = "absent"
    /\ SchemaSidebarIdle
    /\ form' = NoForm
    /\ UNCHANGED << creds, editor, choice, appliers >>

\* A run whose pressed button is in Data Management: the tabs come first.
ManagementRun(mgmt, failing) ==
    LET tabs == Tabs(creds, NoPart(db), choice, db, NoPart(db), failing)
    IN  /\ requests' = tabs.requests \o mgmt.requests
        /\ messages' = tabs.messages \cup mgmt.messages
        /\ db' = mgmt.db

\* "Clear All API Usage"
PressClearAllApiUsage(failing) ==
    /\ Connected
    /\ ManagementRun(ClearAllApiUsage(db, failing), failing)
    /\ button' = "clear_api_usage"
    /\ resetBox' = "absent"
    /\ SchemaSidebarIdle
    /\ EntryIdle
    /\ UNCHANGED << creds, editor, choice, appliers >>

\* "Delete Sample Properties"
PressDeleteSampleProperties(failing, owned) ==
    /\ Connected
    /\ owned <= db.rows["properties"]
    /\ ManagementRun(DeleteSampleProperties(db, failing, owned), failing)
    /\ button' = "delete_sample_properties"
    /\ resetBox' = "absent"
    /\ SchemaSidebarIdle
    /\ EntryIdle
    /\ UNCHANGED << creds, editor, choice, appliers >>

\* "Reset All Data": the run renders the confirmation checkbox.
PressResetAllData(failing) ==
    /\ Connected
    /\ LET checked == Checkbox(resetBox)
       IN  /\ ManagementRun(ResetAllData(checked, db, failing), failing)
           /\ resetBox' = IF checked THEN "checked" ELSE "unchecked"
    /\ button' = "reset_all_data"
    /\ SchemaSidebarIdle
    /\ EntryIdle
    /\ UNCHANGED << creds, editor, choice, appliers >>

\* The operator ticks the confirmation checkbox the previous run rendered:
\* in the run the click triggers "Reset All Data" reads False, the block is
\* not reached, and the session drops the widget.
TickResetBox ==
    /\ Connected
    /\ resetBox # "absent"
    /\ ManagementRun(NoPart(db), {})
    /\ button' = "none"
    /\ resetBox' = "absent"
    /\ SchemaSidebarIdle
    /\ EntryIdle
    /\ UNCHANGED << creds, editor, choice, appliers >>

\* The projects of the data runs: an empty one; one with every declared
\* table and index; one where market_alerts and its indexes are missing.
DataBackends ==
    { EmptyBackend,
      [EmptyBackend EXCEPT !.tables = Tables, !.indexes = Indexes],
      [EmptyBackend EXCEPT
          !.tables = Tables \ {"market_alerts"},
          !.indexes = {i \in Indexes : TableOfIndex(i) # "market_alerts"}] }

InitData == FirstLoad /\ db \in DataBackends

\* The ids tried for the first row a loop inserts.
FirstIds == {1, 2}

\* The failures tried on an operation: none, or the requests on one of
\* its tables failing.
Failures(ts) == {{}} \cup {{t} : t \in ts}

NextData ==
    \/ \E u \in BOOLEAN, k \in BOOLEAN : EditCredentials(u, k)
    \/ CheckTableStatus({})
    \/ CreateAll
    \/ ShowCompleteSQL
    \/ \E t \in {"users", "properties"}, failing \in Failures({"api_usage"}) :
          ChooseTable(t, failing)
    \/ \E i \in 1..Len(query_examples), failing \in Failures({"users"}) :
          PressRunExample(query_examples[i], failing)
    \/ \E custom_query \in CustomQueries, failing \in Failures({"users"}) :
          PressExecute(custom_query, failing)
    \/ \E i \in 1..Len(EntryTables) :
          \E input \in FormInputs(EntryTables[i]),
             failing \in Failures({EntryTables[i]}) :
                SubmitForm(EntryTables[i], input, failing)
    \/ \E failing \in Failures({"properties"}), okBefore \in {0, 4} :
          PressGenerateProperties(failing, okBefore)
    \/ \E failing \in Failures({"users", "market_alerts"}), okBefore \in {0, 1},
          first \in FirstIds :
             PressGenerateUsersAlerts(failing, okBefore, first)
    \/ \E failing \in Failures({"api_usage"}) : PressClearAllApiUsage(failing)
    \/ \E failing \in Failures({"properties"}), owned \in 0..(SampleProperties + MaxRows) :
          PressDeleteSampleProperties(failing, owned)
    \/ \E failing \in Failures({"users"}) : PressResetAllData(failing)
    \/ TickResetBox

SpecData == InitData /\ [][NextData]_vars

\* The same runs with an operator who keeps at it: they press "Reset All
\* Data" and "Create All Tables & Indexes" again and again, and tick the
\* checkbox a run has rendered whenever one is on the page.
NextOperator == NextData \/ TickRls

SpecOperator ==
    /\ InitData
    /\ [][NextOperator]_vars
    /\ WF_vars(PressResetAllData({}))
    /\ WF_vars(TickResetBox)
    /\ WF_vars(CreateAll)
    /\ WF_vars(TickRls)

(***************************************************************************)
(* The delete loop of "Reset All Data" (the body of the confirmation's     *)
(* `if`), taken by itself: what it does to a backend once it is entered,   *)
(* whatever the backend holds and whichever delete the backend fails.      *)
(***************************************************************************)
ResetLoop(failing) ==
    /\ button = "none"
    /\ LET r == ResetAllData(TRUE, db, failing)
       IN  /\ Shows(r)
           /\ db' = r.db
    /\ button' = "reset_all_data"
    /\ last' = "data"
    /\ UNCHANGED << creds, rlsBox, rlsRequested, plan, export, guideSql, status,
                    outcome, editor, repeated, catalogs, choice, resetBox,
                    setup, form, sample, appliers >>

\* The projects the loop is entered on: every table with no row or one,
\* every table there or properties missing.
ResetBackends ==
    {[tables |-> ts, indexes |-> {}, rls |-> {}, policies |-> {}, rows |-> rs] :
        ts \in {Tables, Tables \ {"properties"}},
        rs \in [Tables -> {0, 1}]}

InitReset == FirstLoad /\ db \in ResetBackends

NextReset == \E failing \in Failures(Tables) : ResetLoop(failing)

SpecReset == InitReset /\ [][NextReset]_vars

(***************************************************************************)
(* The dictionaries written otherwise.  The dictionaries are source text:  *)
(* App.py has no loader and no check between the definition of a           *)
(* dictionary and its uses, so what the dashboard does with a declaration  *)
(* is what the script does with that entry in the dictionary.  Besides the *)
(* dictionaries as written, these runs take them with one entry more: an   *)
(* index in the array group on a TEXT column, a FOR ALL policy next to the *)
(* policies of users, a table that REFERENCES a table declared after it.   *)
(***************************************************************************)
ArrayIndexOnText ==
    [ModuleCatalogs EXCEPT
        !.indexes = Append(@, [key |-> "idx_properties_notes_gin",
                               sql |-> << CreateIndex("idx_properties_notes_gin",
                                                      "properties") >>])]

ConflictingPolicies ==
    [ModuleCatalogs EXCEPT
        !.policies[1].sql = Append(@, CreatePolicy("Users manage own profile", "users"))]

ForwardReference ==
    [ModuleCatalogs EXCEPT
        !.tables = << @[1], [key |-> "user_notes",
                             sql |-> << CreateTable("user_notes") >>] >>
                   \o Tail(@)]

Written == {ModuleCatalogs, ArrayIndexOnText, ConflictingPolicies, ForwardReference}

\* What a statement declares, the added entries included.
DefinitionOf(name) ==
    (IndexDefinitions @@ ("idx_properties_notes_gin" :> ArrayGin("notes")))[name]

OperationOf(name) ==
    (PolicyOperations @@ ("Users manage own profile" :> "all"))[name]

ReferencesOf(t) == (TableReferences @@ ("user_notes" :> {"users"}))[t]

\* The flows, over the dictionaries of the run.
TextsIn(catalog) == [i \in 1..Len(catalog) |-> catalog[i].sql]

TablesIn(c) == SelectSeq(c.tables, LAMBDA e : e.key # "extensions")

CallsOf(c, rlsChecked) ==
    << SqlOf(c.tables, "extensions") >>
    \o TextsIn(TablesIn(c))
    \o TextsIn(c.indexes)
    \o (IF rlsChecked THEN TextsIn(c.policies) ELSE << >>)

GuideOf(c) ==
    Flatten(<< << CreateExtension("uuid-ossp") >> >>
            \o TextsIn(TablesIn(c)) \o TextsIn(c.indexes))

\* The operator enters the credentials: the first run that defines the
\* dictionaries, written as `written`.
RunAsWritten(written) ==
    /\ catalogs = NotDefined
    /\ creds' = [url |-> TRUE, key |-> TRUE]
    /\ catalogs' = CatalogsAfterRun(written)
    /\ guideSql' = GuideOf(written)
    /\ button' = "none"
    /\ rlsBox' = "absent"
    /\ rlsRequested' = FALSE
    /\ plan' = << >>
    /\ export' = << >>
    /\ status' = NoStatus
    /\ outcome' = NoOutcome
    /\ last' = "run"
    /\ repeated' = FALSE
    /\ resetBox' = "absent"
    /\ setup' = NoSetup
    /\ Shows(Tabs([url |-> TRUE, key |-> TRUE], NoPart(db), choice, db,
                  NoPart(db), {}))
    /\ EntryIdle
    /\ UNCHANGED << db, editor, choice, appliers >>

\* "Create All Tables & Indexes" in the script with these dictionaries.
CreateAllAsWritten ==
    /\ Connected
    /\ catalogs # NotDefined
    /\ LET rlsChecked == Checkbox(rlsBox)
           calls == CallsOf(catalogs, rlsChecked)
           after == ExecuteEach(calls, db)
       IN  /\ plan' = Flatten(calls)
           /\ db' = after
           /\ rlsBox' = IF rlsChecked THEN "checked" ELSE "unchecked"
           /\ setup' = SetupReport(calls, CallResults(calls, db))
           /\ Shows(Tabs(creds, NoPart(db), choice, after, NoPart(after), {}))
    /\ button' = "create_all"
    /\ rlsRequested' = FALSE
    /\ export' = << >>
    /\ guideSql' = GuideOf(catalogs)
    /\ status' = NoStatus
    /\ outcome' = NoOutcome
    /\ last' = "run"
    /\ repeated' = (button = "create_all")
    /\ catalogs' = CatalogsAfterRun(catalogs)
    /\ resetBox' = "absent"
    /\ EntryIdle
    /\ UNCHANGED << creds, editor, choice, appliers >>

InitLoad == FirstLoad /\ db \in InitBackends

NextLoad ==
    \/ \E written \in Written : RunAsWritten(written)
    \/ CreateAllAsWritten

SpecLoad == InitLoad /\ [][NextLoad]_vars

(***************************************************************************)
(* Properties.                                                             *)
(***************************************************************************)
\* The statement does nothing to the backend and does not fail.
IsNoOp(s, backend) == ApplyStatement(s, backend) = [ok |-> TRUE, db |-> backend]

\* The positions of `script` that hold a statement of the kind for the object.
Positions(script, kind, target) ==
    {i \in 1..Len(script) : script[i].kind = kind /\ script[i].target = target}

\* The last script run was "Create All Tables & Indexes", and nothing was
\* run in the SQL editor since: the plan on screen was produced against db.
PlanIsFresh == last = "run" /\ button = "create_all"

\* A run of the plan in the SQL editor went through every statement.
PlanApplied ==
    /\ editor.src = "plan"
    /\ editor.pos > 0
    /\ editor.pos = Len(editor.script)

\* A run of the plan in the SQL editor stopped after some, not all, statements.
PlanStoppedEarly ==
    /\ editor.src = "plan"
    /\ editor.pos > 0
    /\ editor.pos < Len(editor.script)

AllDeclaredExist == Tables \subseteq db.tables /\ Indexes \subseteq db.indexes

IndexesFollowTables(script, backend) ==
    \A i \in 1..Len(script) :
        script[i].kind = "create_index" =>
            \/ script[i].on \in backend.tables
            \/ \E j \in 1..(i - 1) :
                  script[j].kind = "create_table" /\ script[j].target = script[i].on

\* C4: in the plan of the bootstrap flow and in both exported scripts, each
\* create-index statement targets a table that an earlier statement of the
\* same script creates or that exists in the backend.
C4_IndexAfterTable ==
    /\ IndexesFollowTables(plan, db)
    /\ IndexesFollowTables(export, db)
    /\ IndexesFollowTables(guideSql, db)

C4_Witness ==
    /\ PlanIsFresh
    /\ guideSql # << >>
    /\ \E i \in 1..Len(plan) :
          plan[i].kind = "create_index" /\ plan[i].on \notin db.tables

Rank(kind) ==
    CASE kind = "create_extension" -> 0
      [] kind = "create_table" -> 1
      [] kind = "create_index" -> 2
      [] OTHER -> 3

\* Tables before indexes before policy statements.
CategoryOrder(script) ==
    \A i \in 1..Len(script) : \A j \in i..Len(script) :
        Rank(script[i].kind) <= Rank(script[j].kind)

Targets(script, kind) ==
    LET part == SelectSeq(script, LAMBDA s : s.kind = kind)
    IN  [i \in 1..Len(part) |-> part[i].target]

\* Within each category, the order of the catalog.
DeclarationOrder(script) ==
    /\ Targets(script, "create_table") = TableNames
    /\ Targets(script, "create_index") = IndexNames
    /\ SelectSeq(script, LAMBDA s : Rank(s.kind) = 3) \in {<< >>, Flatten(RlsTexts)}

\* C5 as claimed: in the plan of the bootstrap flow and in the "Show
\* Complete SQL" export, table statements come before index statements,
\* which come before policy statements, and within each category the
\* statements are in the catalog's declaration order.
C5_CategoryAndDeclarationOrder ==
    /\ plan # << >> => CategoryOrder(plan) /\ DeclarationOrder(plan)
    /\ export # << >> => CategoryOrder(export) /\ DeclarationOrder(export)

C7_RunsLeaveBackend == [][ last' = "run" => db' = db ]_vars

C7_Witness == PlanIsFresh /\ plan # << >> /\ ~ AllDeclaredExist

\* The policy statements a plan is to hold when enforcement is requested:
\* for every table of RLS_POLICIES the enabling statement, then the
\* policies that are not in the backend.
RECURSIVE PolicyActions(_, _)
PolicyActions(texts, backend) ==
    IF texts = << >> THEN << >>
    ELSE SelectSeq(Head(texts),
                   LAMBDA s : s.kind = "enable_rls" \/ ~ Exists(s, backend))
         \o PolicyActions(Tail(texts), backend)

\* C8 as claimed: when the operator has ticked "Enable Row Level Security",
\* the plan holds, for every table of RLS_POLICIES, the enabling statement
\* followed by its missing policies; when not, it holds no policy statement.
C8_PolicyPlan ==
    /\ rlsRequested =>
          SelectSeq(plan, LAMBDA s : Rank(s.kind) = 3) = PolicyActions(RlsTexts, db)
    /\ (PlanIsFresh /\ ~ rlsRequested) =>
          SelectSeq(plan, LAMBDA s : Rank(s.kind) = 3) = << >>

\* Every create-policy statement of the script comes after the statement
\* that enables enforcement on its table.
EnableBeforePolicies(script) ==
    \A i \in 1..Len(script) :
        script[i].kind = "create_policy" =>
            \E j \in 1..(i - 1) :
                script[j].kind = "enable_rls" /\ script[j].on = script[i].on

\* C9: in every plan and exported script the statement enabling enforcement
\* on a table comes before every policy of that table, and at no point of a
\* run of the SQL is there a policy on a table without enforcement.
C9_EnforcementBeforePolicy ==
    /\ EnableBeforePolicies(plan)
    /\ EnableBeforePolicies(export)
    /\ EnableBeforePolicies(editor.script)
    /\ \A p \in db.policies : p[1] \in db.rls

C9_Witness ==
    /\ editor.src = "export"
    /\ editor.pos < Len(editor.script)
    /\ db.policies # {}

\* C10 as claimed: an introspection query that failed is reported as an
\* error of its own, never as the table being missing or holding records.
C10_FailClosed ==
    \A t \in Tables :
        outcome[t] = "failed" => status[t].shown \notin {"missing", "records"}

\* The operations of the tabs and of Data Management that call the backend.
DataOperations ==
    {"fetch_data", "analytics", "generate_properties", "generate_users_alerts",
     "clear_api_usage", "delete_sample_properties", "reset_all_data"}
    \cup {FormOf[EntryTables[i]] : i \in 1..Len(EntryTables)}

\* A request of the operation raised in the last script run.
FailedIn(op) ==
    \E i \in 1..Len(requests) : requests[i].op = op /\ ~ requests[i].ok

\* C11: backend errors are never silently swallowed: an operation of the
\* last run whose backend call failed showed an error, and showed neither a
\* success message nor data.
C11_ErrorsSurfaced ==
    \A op \in DataOperations :
        FailedIn(op) =>
            /\ <<op, "error">> \in messages
            /\ <<op, "success">> \notin messages
            /\ <<op, "data">> \notin messages

\* C12: planning cannot fail: every run of "Create All Tables & Indexes",
\* whatever the backend holds, ends with the progress bar at 100 and the
\* status "Database setup complete!", reports every declared table and
\* index ready, and shows no error or warning line.
C12_SetupCompletes ==
    button = "create_all" =>
        /\ setup.progress = 100
        /\ setup.text = "Database setup complete!"
        /\ setup.ready = Tables
        /\ setup.indexes = Cardinality(Indexes)
        /\ setup.problems = {}

C12_Witness ==
    /\ button = "create_all"
    /\ setup.progress = 100
    /\ db.tables # {}
    /\ ~ AllDeclaredExist

\* The tables the dictionaries declare.
DeclaredTables(c) == {c.tables[i].key : i \in 1..Len(c.tables)} \ {"extensions"}

\* The index statements the dictionaries declare.
DeclaredIndexes(c) == {c.indexes[i].sql[1] : i \in 1..Len(c.indexes)}

\* C13: every index of INDEX_SCHEMAS has a name of its own, as a key and in
\* its statement, and its statement is on a table TABLE_SCHEMAS declares.
C13_IndexesOwned ==
    catalogs # NotDefined =>
        /\ \A i, j \in 1..Len(catalogs.indexes) :
              i # j => /\ catalogs.indexes[i].key # catalogs.indexes[j].key
                       /\ catalogs.indexes[i].sql[1].target
                            # catalogs.indexes[j].sql[1].target
        /\ \A s \in DeclaredIndexes(catalogs) : s.on \in DeclaredTables(catalogs)

C13_Witness ==
    /\ button = "index_details"
    /\ Len(catalogs.indexes) = 20
    /\ Cardinality(DeclaredTables(catalogs)) = 9

\* C14: the expression indexes are idx_properties_price, _bedrooms and
\* _property_type; each names only columns of its table, decodes exactly one
\* JSON path, and its WHERE clause names that same path and no other.
C14_ExpressionIndexes ==
    catalogs # NotDefined =>
        /\ {s.target : s \in {x \in DeclaredIndexes(catalogs) :
                                IndexDefinitions[x.target].group = "expression"}}
             = {"idx_properties_price", "idx_properties_bedrooms",
                "idx_properties_property_type"}
        /\ \A s \in DeclaredIndexes(catalogs) :
              LET d == IndexDefinitions[s.target]
              IN  d.group = "expression" =>
                    /\ d.columns \subseteq DOMAIN Columns[s.on]
                    /\ d.where.columns \subseteq DOMAIN Columns[s.on]
                    /\ Cardinality(d.paths) = 1
                    /\ d.where.paths = d.paths

C14_Witness ==
    /\ button = "create_all"
    /\ \E i \in 1..Len(plan) : plan[i].target = "idx_properties_price"

\* C16: an index of the JSONB GIN group is a GIN index on a jsonb column
\* itself; no GIN index is over a decoded path; and every index over a
\* decoded path is a BTREE expression index over one path.
C16_ContainmentIndexesArePlainGin ==
    catalogs # NotDefined =>
        \A s \in DeclaredIndexes(catalogs) :
            LET d == IndexDefinitions[s.target]
            IN  /\ d.group = "jsonb_gin" =>
                      /\ d.using = "gin"
                      /\ \A c \in d.columns :
                            /\ c \in DOMAIN Columns[s.on]
                            /\ Columns[s.on][c] = "jsonb"
                /\ d.using = "gin" => d.paths = {}
                /\ d.paths # {} =>
                      /\ d.using = "btree"
                      /\ d.group = "expression"
                      /\ Cardinality(d.paths) = 1

C16_Witness ==
    /\ button = "show_sql"
    /\ \E i \in 1..Len(export) : export[i].target = "idx_properties_data_gin"
    /\ \E i \in 1..Len(export) : export[i].target = "idx_properties_bedrooms"

\* Every statement of the dictionaries; those of TABLE_SCHEMAS and
\* INDEX_SCHEMAS only.
AllStatements(c) ==
    UNION {{c.tables[i].sql[j] : j \in 1..Len(c.tables[i].sql)} : i \in 1..Len(c.tables)}
    \cup UNION {{c.indexes[i].sql[j] : j \in 1..Len(c.indexes[i].sql)} : i \in 1..Len(c.indexes)}
    \cup UNION {{c.policies[i].sql[j] : j \in 1..Len(c.policies[i].sql)} : i \in 1..Len(c.policies)}

SchemaStatements(c) ==
    {s \in AllStatements(c) : s.kind \in {"create_extension", "create_table", "create_index"}}

\* The SQL holds each of the statements once and nothing else.
ExactlyOnce(sql, stmts) ==
    /\ \A s \in stmts : Cardinality({i \in 1..Len(sql) : sql[i] = s}) = 1
    /\ \A i \in 1..Len(sql) : sql[i] \in stmts

\* C19 as claimed: the SQL of "Show Complete SQL" and the SQL of the Setup
\* Guide download each hold every declared table, index and policy statement
\* exactly once.
C19_ExportsComplete ==
    /\ export # << >> => ExactlyOnce(export, AllStatements(catalogs))
    /\ guideSql # << >> => ExactlyOnce(guideSql, AllStatements(catalogs))

\* C19 as amended: the SQL of "Show Complete SQL" holds every declared
\* table, index and policy statement exactly once (the grouping by name is a
\* partition of INDEX_SCHEMAS); the SQL of the Setup Guide download holds
\* every declared table and index statement exactly once and no policy.
C19_ExportsCompleteGuideWithoutPolicies ==
    /\ export # << >> => ExactlyOnce(export, AllStatements(catalogs))
    /\ guideSql # << >> => ExactlyOnce(guideSql, SchemaStatements(catalogs))

C19_Witness ==
    /\ button = "show_sql"
    /\ Len(export) = 40
    /\ Len(guideSql) = 30

UsedAsWritten ==
    catalogs # NotDefined =>
        /\ guideSql = GuideOf(catalogs)
        /\ button = "create_all" =>
              /\ plan = Flatten(CallsOf(catalogs, FALSE))
              /\ setup.progress = 100
              /\ setup.problems = {}

\* Every index of the array group is on a column declared with an array type.
ArrayIndexesOnArrays(c) ==
    \A s \in DeclaredIndexes(c) :
        LET d == DefinitionOf(s.target)
        IN  d.group = "array_gin" =>
              \A col \in d.columns :
                  /\ col \in DOMAIN Columns[s.on]
                  /\ IsArrayType(Columns[s.on][col])

PoliciesOn(c, t) ==
    {s \in AllStatements(c) : s.kind = "create_policy" /\ s.on = t}

\* No table has a FOR ALL policy together with a policy for one operation.
NoPolicyConflict(c) ==
    \A t \in DeclaredTables(c) :
        ~ \E p, q \in PoliciesOn(c, t) :
              OperationOf(p.target) = "all" /\ OperationOf(q.target) # "all"

PlaceOf(c, t) == CHOOSE i \in 1..Len(c.tables) : c.tables[i].key = t

\* No table declares a relationship to a table declared after it.
NoForwardReference(c) ==
    \A t \in DeclaredTables(c) :
        \A r \in ReferencesOf(t) :
            /\ r \in DeclaredTables(c)
            /\ PlaceOf(c, r) <= PlaceOf(c, t)

RerunOperations == {"connection_test", "fetch_data", "analytics"}

Finished(a) ==
    /\ appliers.of[a].script # << >>
    /\ appliers.of[a].pos = Len(appliers.of[a].script)

\* The backend holds the declared tables and indexes, and none else.
ExactlyDeclared ==
    /\ db.tables = Tables
    /\ db.indexes = Indexes

DeletesOn(reqs, t) ==
    {i \in 1..Len(reqs) :
        reqs[i].op = "reset_all_data" /\ reqs[i].verb = "delete"
        /\ reqs[i].table = t}

\* The tables declared with a user_id column.
CarryUserId == {t \in DOMAIN Columns : "user_id" \in DOMAIN Columns[t]}

C24_ResetNeedsConfirmation ==
    [][ /\ (\E t \in Tables : DeletesOn(requests', t) # {}) =>
              (button' = "reset_all_data" /\ resetBox' = "checked")
        /\ (button' = "reset_all_data" /\ resetBox' # "checked") =>
              /\ db' = db
              /\ \A i \in 1..Len(requests') : requests'[i].verb # "delete" ]_vars

C24_Witness ==
    /\ button = "reset_all_data"
    /\ resetBox = "unchecked"
    /\ TotalRows(db) > 0
    /\ \A i \in 1..Len(requests) : requests[i].verb # "delete"

\* "All data reset successfully" is on the page and no table holds a row.
ResetDone ==
    /\ <<"reset_all_data", "success">> \in messages
    /\ \A t \in Tables : db.rows[t] = 0

\* The plan holds the statements of RLS_POLICIES.
RlsPlanned == \E i \in 1..Len(plan) : plan[i].kind \in {"enable_rls", "create_policy"}

\* C25 as claimed: on a project with every table, once "Reset All Data" has
\* been clicked and its confirmation checkbox is on the page, the operator
\* who checks it gets all tables cleared and the success shown; and once
\* "Create All Tables & Indexes" has been clicked and "Enable Row Level
\* Security" is on the page, the operator who checks it gets the policies
\* set up.
C25_ResetAchievable ==
    /\ (db.tables = Tables /\ button = "reset_all_data" /\ resetBox = "unchecked")
          ~> ResetDone
    /\ (button = "create_all" /\ rlsBox = "unchecked") ~> RlsPlanned

\* C26: a script run in which the URL or the API key is empty stops at the
\* warning: it creates no client, runs no introspection, sends no request
\* and shows nothing else; and no run shows the "Please enter your Supabase
\* credentials" warning of the Setup Guide's connection status.
C26_CredentialGate ==
    /\ (~ (creds.url /\ creds.key)) =>
          /\ requests = << >>
          /\ messages = {<<"credentials", "warning">>}
          /\ outcome = NoOutcome
          /\ plan = << >> /\ export = << >> /\ guideSql = << >>
    /\ <<"connection_test", "credentials">> \notin messages

C26_Witness ==
    /\ ~ (creds.url /\ creds.key)
    /\ last = "run"
    /\ catalogs # NotDefined
    /\ TotalRows(db) > 0

\* The places of the inserts among the requests.
Inserts(reqs) == {i \in 1..Len(reqs) : reqs[i].verb = "insert"}

\* A field the form requires was left empty.
RequiredMissing(t, input) ==
    \/ t = "users" /\ input.email = ""
    \/ t = "properties" /\ (input.address = "" \/ ~ (input.price > 0))
    \/ t = "market_alerts" /\ (input.alert_name = "" \/ input.criteria_json = "")
    \/ t = "saved_searches" /\ (input.search_name = "" \/ input.criteria_json = "")

\* The criteria text is not valid JSON.
CriteriaNotJson(t, input) ==
    /\ t \in {"market_alerts", "saved_searches"}
    /\ json_loads[input.criteria_json] = "raises"

\* C27: the run of a submit sends no insert, leaves the backend as it was
\* and shows the form's error when a required field is missing or the
\* criteria text is not valid JSON; otherwise it sends one insert, into the
\* form's table.
C27_ValidationBlocksInserts ==
    [][ form'.table # "none" =>
          IF \/ RequiredMissing(form'.table, form'.input)
             \/ CriteriaNotJson(form'.table, form'.input)
          THEN /\ Inserts(requests') = {}
               /\ db' = db
               /\ <<FormOf[form'.table], "error">> \in messages'
               /\ <<FormOf[form'.table], "success">> \notin messages'
          ELSE /\ Cardinality(Inserts(requests')) = 1
               /\ \A i \in Inserts(requests') :
                     /\ requests'[i].table = form'.table
                     /\ requests'[i].op = FormOf[form'.table] ]_vars

C27_Witness ==
    /\ form.table = "market_alerts"
    /\ form.input.alert_name # ""
    /\ form.input.criteria_json = "{max_price"
    /\ Inserts(requests) = {}
    /\ <<"add_alert", "error">> \in messages
    /\ "market_alerts" \in db.tables

\* The places of the inserts into table t that "Generate Sample Users &
\* Alerts" sent.
SampleInserts(reqs, t) ==
    {i \in Inserts(reqs) :
        reqs[i].op = "generate_users_alerts" /\ reqs[i].table = t}

\* C28: in the run of "Generate Sample Users & Alerts" an alert is sent
\* only after the inserts of all three users went through, and every alert
\* carries the id the backend returned for the first user; when a user
\* insert fails no alert is sent, the error is shown in place of the
\* success, and the users inserted before the failure stay in the backend.
C28_AlertsAfterUsers ==
    [][ button' = "generate_users_alerts" =>
          LET users == SampleInserts(requests', "users")
              alerts == SampleInserts(requests', "market_alerts")
              inserted == {i \in users : requests'[i].ok}
          IN  /\ Len(sample'.user_ids) = Cardinality(inserted)
              /\ Len(sample'.alert_user_ids) = Cardinality(alerts)
              /\ \A j \in alerts :
                    /\ Cardinality(inserted) = SampleUsers
                    /\ \A i \in users : i < j
              /\ \A k \in 1..Len(sample'.alert_user_ids) :
                    sample'.alert_user_ids[k] = sample'.user_ids[1]
              /\ (\E i \in users : ~ requests'[i].ok) =>
                    /\ alerts = {}
                    /\ <<"generate_users_alerts", "success">> \notin messages'
                    /\ <<"generate_users_alerts", "error">> \in messages'
                    /\ db'.rows["users"] = db.rows["users"] + Cardinality(inserted)
                    /\ db'.rows["market_alerts"] = db.rows["market_alerts"] ]_vars

C28_Witness ==
    /\ button = "generate_users_alerts"
    /\ <<"generate_users_alerts", "success">> \in messages
    /\ sample.user_ids = << 2, 3, 4 >>
    /\ sample.alert_user_ids = << 2, 2 >>
    /\ db.rows["market_alerts"] >= SampleAlerts

====
